---- MODULE Spec2Model ----
(***************************************************************************)
(* A model of the in-process event bus of src/src/core: the Event          *)
(* container (event.rs), the Subscriber trait with its three stages        *)
(* (subscriber.rs) and the EventBus registry and publish loop              *)
(* (event_bus.rs).  publish is modelled step by step, one listener stage   *)
(* call per step, so that the order of the calls can be stated.            *)
(***************************************************************************)
EXTENDS Integers, Sequences, FiniteSets, TLC

(***************************************************************************)
(* Bounds of the model.                                                    *)
(***************************************************************************)
\* how many events are registered in one run (each gets a fresh identity)
MaxEvents == 3
\* how many listener subscriptions are made in one run, over all topics
MaxSubs == 2
\* how many times set_data is called on an Event used on its own
MaxSets == 2

(***************************************************************************)
(* Inputs: topic names, payloads, listeners.                               *)
(***************************************************************************)
\* the topic names of examples/01.rs and of the tests
Topics == {"foo", "bar"}

\* Box<dyn Any>: the concrete type and the value (num for a u32, str for a
\* String; the field the type does not use is left at its zero)
U32Payload(n) == [type |-> "u32", num |-> n, str |-> ""]
StringPayload(s) == [type |-> "String", num |-> 0, str |-> s]

\* the payloads of the tests and of the example: 32u32 and "hello"
Payloads == {U32Payload(32), StringPayload("hello")}

\* Option<&T>
None == [some |-> FALSE, type |-> "", num |-> 0, str |-> ""]
Some(d) == [some |-> TRUE, type |-> d.type, num |-> d.num, str |-> d.str]

\* Event::new: the event owns the boxed payload.  id is the identity of the
\* registered event (the box the bus holds), used only to tell events apart:
\* <<t, n>> for the n-th event registered on topic t.
EventNew(i, d) == [id |-> i, data |-> d]

\* Event::get_data::<T>: downcast_ref, Some only for the payload's own type
GetData(e, T) == IF e.data.type = T THEN Some(e.data) ELSE None

\* a variant that keeps the old box when the new payload has another type
SetDataSameTypeOnly(e, d) ==
    IF d.type = e.data.type THEN [e EXCEPT !.data = d] ELSE e

\* Event::set_data::<T>: the box is replaced
SetData(e, d) == [e EXCEPT !.data = d]

\* Result<(), String>
Ok == [ok |-> TRUE, msg |-> ""]
Err(m) == [ok |-> FALSE, msg |-> m]

\* The listener implementations subscribed in this model: the trait's
\* defaults, the ExampleSubscriber of the tests, the NumberSubscriber of the
\* example, and a listener that rejects non-String payloads in on_after.
Listeners == {"Default", "ExampleSubscriber", "NumberSubscriber", "AfterSubscriber"}

\* The listeners subscribed where the claim is about what a listener writes:
\* on_event takes &mut Event as on_before does, and RewriteSubscriber uses it
\* to replace the payload, whatever it is, by the String "handled".
RewriteListeners == {"Default", "NumberSubscriber", "RewriteSubscriber"}

\* the listener types handed to suppress_subscriber
SuppressTypes == {"ExampleSubscriber", "NumberSubscriber"}

Stages == {"on_before", "on_event", "on_after"}

\* Subscriber::on_before -> [res, event].  NumberSubscriber adds 1 to a u32
\* payload; the payloads of this model (32 and its successors) stay far below
\* u32::MAX, so the addition never overflows.
OnBefore(l, e) ==
    IF l = "NumberSubscriber"
    THEN IF GetData(e, "u32").some
         THEN [res |-> Ok,
               event |-> SetData(e, U32Payload(GetData(e, "u32").num + 1))]
         ELSE [res |-> Err("NumberSubscriber received invalid message"), event |-> e]
    ELSE [res |-> Ok, event |-> e]

\* Subscriber::on_event -> [res, event]
OnEvent(l, e) ==
    IF l = "ExampleSubscriber"
    THEN IF GetData(e, "String").some
         THEN [res |-> Ok, event |-> e]
         ELSE [res |-> Err("ExampleSubscriber received UNKNOWN message"), event |-> e]
    ELSE IF l = "NumberSubscriber"
    THEN IF GetData(e, "u32").some
         THEN [res |-> Ok, event |-> e]
         ELSE [res |-> Err("NumberSubscriber received invalid message"), event |-> e]
    ELSE IF l = "RewriteSubscriber"
    THEN [res |-> Ok, event |-> SetData(e, StringPayload("handled"))]
    ELSE [res |-> Ok, event |-> e]

\* Subscriber::on_after takes &Event: the event is returned as it came
OnAfter(l, e) ==
    IF l = "AfterSubscriber"
    THEN IF GetData(e, "String").some
         THEN [res |-> Ok, event |-> e]
         ELSE [res |-> Err("AfterSubscriber received non-String message"), event |-> e]
    ELSE [res |-> Ok, event |-> e]

CallStage(stage, l, e) ==
    IF stage = "on_before" THEN OnBefore(l, e)
    ELSE IF stage = "on_event" THEN OnEvent(l, e)
    ELSE OnAfter(l, e)

(***************************************************************************)
(* HashMap<String, Vec<..>> as a function whose domain is the key set.     *)
(***************************************************************************)
EmptyMap == [k \in {} |-> <<>>]
ContainsKey(m, k) == k \in DOMAIN m
Insert(m, k, v) == [x \in DOMAIN m \cup {k} |-> IF x = k THEN v ELSE m[x]]
Remove(m, k) == [x \in DOMAIN m \ {k} |-> m[x]]

\* a variant that pushes at the front of an existing Vec
PushFrontOrInsert(m, k, v) ==
    IF ContainsKey(m, k)
    THEN [m EXCEPT ![k] = <<v>> \o @]
    ELSE Insert(m, k, <<v>>)

\* a variant that detects duplicates: a value the Vec already holds is not
\* pushed again
PushUniqueOrInsert(m, k, v) ==
    IF ContainsKey(m, k)
    THEN IF \E i \in 1..Len(m[k]) : m[k][i] = v
         THEN m
         ELSE [m EXCEPT ![k] = Append(@, v)]
    ELSE Insert(m, k, <<v>>)

\* the push-or-insert of register and subscribe_listener
PushOrInsert(m, k, v) ==
    IF ContainsKey(m, k)
    THEN [m EXCEPT ![k] = Append(@, v)]
    ELSE Insert(m, k, <<v>>)

RECURSIVE SumLen(_, _)
SumLen(m, keys) ==
    IF keys = {} THEN 0
    ELSE LET k == CHOOSE x \in keys : TRUE
         IN Len(m[k]) + SumLen(m, keys \ {k})

Size(m) == SumLen(m, DOMAIN m)

\* the identities of the events held in a map
Ids(m) == UNION {{m[k][i].id : i \in 1..Len(m[k])} : k \in DOMAIN m}

(***************************************************************************)
(* State.                                                                  *)
(***************************************************************************)
VARIABLES
    events,               \* EventBus.events
    subscribers,          \* EventBus.subscribers
    suppress_subscribers, \* EventBus.suppress_subscribers
    fail_on_error,        \* EventBus.fail_on_error
    pc,                   \* where publish is: "idle" when no publish runs
    drained,              \* publish: what self.events.drain() has not yielded yet
    topic,                \* publish: `event`, the key of the current entry
    messages,             \* publish: `messages`, the Vec of the current entry
    mi,                   \* publish: index of `message` in messages
    li,                   \* publish: index of `listener` in the topic's list
    result,               \* what publish returned, until the caller's next call
    calls,                \* history: the stage calls of that publish, in order
    snap,                 \* history: events as that publish took them
    nextId,               \* history: per topic, the number of the next registered event
    subscribed,           \* history: per topic, the listeners of the subscribe_listener calls, in call order
    cleared,              \* history: identities removed by clear
    taken,                \* history: identities taken by publishes that returned
    afterClear,           \* history: the call before this publish, or the last call, was clear
    probe                 \* an Event used on its own, outside the bus, and what was done with it

vars == <<events, subscribers, suppress_subscribers, fail_on_error, pc, drained,
          topic, messages, mi, li, result, calls, snap, nextId, subscribed, cleared,
          taken, afterClear, probe>>

bus == <<events, subscribers, suppress_subscribers, fail_on_error>>
loop == <<drained, topic, messages, mi, li>>
hist == <<result, calls, snap, nextId, subscribed, cleared, taken, afterClear>>

NoResult == [kind |-> "None", msg |-> ""]
ResultOk == [kind |-> "Ok", msg |-> ""]
ResultErr(m) == [kind |-> "Err", msg |-> m]

\* Option<Vec<TypeId>>
NoTypes == [some |-> FALSE, ids |-> <<>>]
SomeTypes(v) == [some |-> TRUE, ids |-> v]

\* no Event has been built outside the bus
NoProbe ==
    [op |-> "none", event |-> EventNew(<<"", 0>>, U32Payload(0)),
     x |-> U32Payload(0), y |-> U32Payload(0), sets |-> 0, asked |-> "", got |-> None]

\* EventBus::new
New ==
    [events |-> EmptyMap,
     subscribers |-> EmptyMap,
     suppress_subscribers |-> NoTypes,
     fail_on_error |-> TRUE]

InitWith(b) ==
    /\ events = b.events
    /\ subscribers = b.subscribers
    /\ suppress_subscribers = b.suppress_subscribers
    /\ fail_on_error = b.fail_on_error
    /\ pc = "idle"
    /\ drained = EmptyMap
    /\ topic = ""
    /\ messages = <<>>
    /\ mi = 0
    /\ li = 0
    /\ result = NoResult
    /\ calls = <<>>
    /\ snap = EmptyMap
    /\ nextId = [t \in Topics |-> 1]
    /\ subscribed = [t \in Topics |-> <<>>]
    /\ cleared = {}
    /\ taken = {}
    /\ afterClear = FALSE
    /\ probe = NoProbe

Init == InitWith(New)

(***************************************************************************)
(* The operations of the bus.  They take &mut self, so none of them runs   *)
(* while a publish is running (pc # "idle").                               *)
(***************************************************************************)

RECURSIVE SumBelow(_, _)
SumBelow(f, keys) ==
    IF keys = {} THEN 0
    ELSE LET k == CHOOSE x \in keys : TRUE
         IN (f[k] - 1) + SumBelow(f, keys \ {k})

\* how many events have been registered so far
Registered == SumBelow(nextId, DOMAIN nextId)

\* the caller's next call: the Result of the last publish is dropped, and the
\* history of that publish with it
Forget ==
    /\ result' = NoResult
    /\ calls' = <<>>
    /\ snap' = EmptyMap
    /\ afterClear' = FALSE

\* a variant that inserts a fresh one-element Vec whether or not the topic
\* has a queue
RegisterReplaces(t, d) ==
    /\ pc = "idle"
    /\ Registered < MaxEvents
    /\ events' = Insert(events, t, <<EventNew(<<t, nextId[t]>>, d)>>)
    /\ nextId' = [nextId EXCEPT ![t] = @ + 1]
    /\ Forget
    /\ UNCHANGED <<subscribers, suppress_subscribers, fail_on_error, pc, loop,
                   subscribed, cleared, taken, probe>>

\* EventBus::register
Register(t, d) ==
    /\ pc = "idle"
    /\ Registered < MaxEvents
    /\ events' = PushOrInsert(events, t, EventNew(<<t, nextId[t]>>, d))
    /\ nextId' = [nextId EXCEPT ![t] = @ + 1]
    /\ Forget
    /\ UNCHANGED <<subscribers, suppress_subscribers, fail_on_error, pc, loop,
                   subscribed, cleared, taken, probe>>

\* EventBus::subscribe_listener
SubscribeListener(t, l) ==
    /\ pc = "idle"
    /\ Size(subscribers) < MaxSubs
    /\ subscribers' = PushOrInsert(subscribers, t, l)
    /\ subscribed' = [subscribed EXCEPT ![t] = Append(@, l)]
    /\ Forget
    /\ UNCHANGED <<events, suppress_subscribers, fail_on_error, pc, loop,
                   nextId, cleared, taken, probe>>

\* EventBus::suppress_subscriber: the listener's TypeId is recorded once
SuppressSubscriber(l) ==
    /\ pc = "idle"
    /\ suppress_subscribers' =
          IF suppress_subscribers.some
          THEN IF \E i \in 1..Len(suppress_subscribers.ids) : suppress_subscribers.ids[i] = l
               THEN suppress_subscribers
               ELSE SomeTypes(Append(suppress_subscribers.ids, l))
          ELSE SomeTypes(<<l>>)
    /\ Forget
    /\ UNCHANGED <<events, subscribers, fail_on_error, pc, loop,
                   nextId, subscribed, cleared, taken, probe>>

\* a variant that leaves the pending events in place
ClearKeepsEvents ==
    /\ pc = "idle"
    /\ cleared' = cleared \cup Ids(events)
    /\ result' = NoResult
    /\ calls' = <<>>
    /\ snap' = EmptyMap
    /\ afterClear' = TRUE
    /\ UNCHANGED <<events, subscribers, suppress_subscribers, fail_on_error, pc, loop,
                   nextId, subscribed, taken, probe>>

\* a variant that empties every queue and keeps the keys
ClearKeepsKeys ==
    /\ pc = "idle"
    /\ events' = [k \in DOMAIN events |-> <<>>]
    /\ cleared' = cleared \cup Ids(events)
    /\ result' = NoResult
    /\ calls' = <<>>
    /\ snap' = EmptyMap
    /\ afterClear' = TRUE
    /\ UNCHANGED <<subscribers, suppress_subscribers, fail_on_error, pc, loop,
                   nextId, subscribed, taken, probe>>

\* a variant that empties the listener registry with the events
ClearDropsListeners ==
    /\ pc = "idle"
    /\ events' = EmptyMap
    /\ subscribers' = EmptyMap
    /\ cleared' = cleared \cup Ids(events)
    /\ result' = NoResult
    /\ calls' = <<>>
    /\ snap' = EmptyMap
    /\ afterClear' = TRUE
    /\ UNCHANGED <<suppress_subscribers, fail_on_error, pc, loop,
                   nextId, subscribed, taken, probe>>

\* EventBus::clear
Clear ==
    /\ pc = "idle"
    /\ events' = EmptyMap
    /\ cleared' = cleared \cup Ids(events)
    /\ result' = NoResult
    /\ calls' = <<>>
    /\ snap' = EmptyMap
    /\ afterClear' = TRUE
    /\ UNCHANGED <<subscribers, suppress_subscribers, fail_on_error, pc, loop,
                   nextId, subscribed, taken, probe>>

(***************************************************************************)
(* EventBus::publish, step by step.                                        *)
(***************************************************************************)

\* the locals of publish when no entry is being processed
NoEntry ==
    /\ topic' = ""
    /\ messages' = <<>>
    /\ mi' = 0
    /\ li' = 0

\* a variant that iterates over the map without draining it
PublishStartKeepsEvents ==
    /\ pc = "idle"
    /\ drained' = events
    /\ pc' = "topics"
    /\ NoEntry
    /\ result' = NoResult
    /\ calls' = <<>>
    /\ snap' = events
    /\ afterClear' = (afterClear /\ result.kind = "None")
    /\ UNCHANGED <<events, subscribers, suppress_subscribers, fail_on_error, nextId,
                   subscribed, cleared, taken, probe>>

\* `self.events.drain()`: the whole map is taken; self.events is left empty
\* (Drain removes what was not yielded when it is dropped)
PublishStart ==
    /\ pc = "idle"
    /\ drained' = events
    /\ events' = EmptyMap
    /\ pc' = "topics"
    /\ NoEntry
    /\ result' = NoResult
    /\ calls' = <<>>
    /\ snap' = events
    /\ afterClear' = (afterClear /\ result.kind = "None")
    /\ UNCHANGED <<subscribers, suppress_subscribers, fail_on_error, nextId,
                   subscribed, cleared, taken, probe>>

\* a variant that keeps the events of a topic without listeners for a later
\* publish
NextTopicKeepsUnrouted ==
    /\ pc = "topics"
    /\ \E t \in DOMAIN drained :
          /\ drained' = Remove(drained, t)
          /\ IF /\ ContainsKey(subscribers, t)
                /\ Len(drained[t]) > 0
                /\ Len(subscribers[t]) > 0
             THEN /\ topic' = t
                  /\ messages' = drained[t]
                  /\ mi' = 1
                  /\ li' = 1
                  /\ pc' = "on_before"
                  /\ UNCHANGED events
             ELSE /\ NoEntry
                  /\ pc' = "topics"
                  /\ events' = Insert(events, t, drained[t])
    /\ UNCHANGED <<subscribers, suppress_subscribers, fail_on_error, hist, probe>>

\* `for (event, mut messages) in self.events.drain()`: the next entry, in the
\* map's iteration order (any one), and the contains_key test on subscribers.
\* With an empty Vec of messages or of listeners no stage is called for the
\* entry and the loop goes on to the next one.
NextTopic ==
    /\ pc = "topics"
    /\ \E t \in DOMAIN drained :
          /\ drained' = Remove(drained, t)
          /\ IF /\ ContainsKey(subscribers, t)
                /\ Len(drained[t]) > 0
                /\ Len(subscribers[t]) > 0
             THEN /\ topic' = t
                  /\ messages' = drained[t]
                  /\ mi' = 1
                  /\ li' = 1
                  /\ pc' = "on_before"
             ELSE \* warn!("No event subscribers for ..")
                  /\ NoEntry
                  /\ pc' = "topics"
    /\ UNCHANGED <<bus, hist, probe>>

\* a variant that returns Ok(()) while the drain still has entries
PublishOkEarly ==
    /\ pc = "topics"
    /\ pc' = "idle"
    /\ result' = ResultOk
    /\ drained' = EmptyMap
    /\ taken' = taken \cup Ids(snap)
    /\ UNCHANGED <<bus, topic, messages, mi, li, calls, snap, nextId, subscribed,
                   cleared, afterClear, probe>>

\* the drain is exhausted: `Ok(())`
PublishOk ==
    /\ pc = "topics"
    /\ DOMAIN drained = {}
    /\ pc' = "idle"
    /\ result' = ResultOk
    /\ taken' = taken \cup Ids(snap)
    /\ UNCHANGED <<bus, loop, calls, snap, nextId, subscribed, cleared, afterClear, probe>>

\* the record of one stage call
Call(stage, l, e, r) ==
    [topic |-> topic, id |-> e.id, stage |-> stage, li |-> li, listener |-> l,
     seen |-> e.data, left |-> r.event.data, res |-> r.res]

\* a variant that returns the error whatever the policy is
OnErrorAlwaysReturn(m) ==
    /\ pc' = "idle"
    /\ result' = ResultErr(m)
    /\ drained' = EmptyMap
    /\ taken' = taken \cup Ids(snap)
    /\ NoEntry

\* a variant whose best-effort branch goes on with the next message of the
\* topic (`continue 'message_loop`) instead of leaving the message loop
OnErrorContinue(m) ==
    IF fail_on_error
    THEN /\ pc' = "idle"
         /\ result' = ResultErr(m)
         /\ drained' = EmptyMap
         /\ taken' = taken \cup Ids(snap)
         /\ NoEntry
    ELSE /\ IF mi < Len(messages)
            THEN /\ mi' = mi + 1
                 /\ li' = 1
                 /\ pc' = "on_before"
                 /\ UNCHANGED <<topic, messages>>
            ELSE /\ NoEntry
                 /\ pc' = "topics"
         /\ UNCHANGED <<result, drained, taken>>

\* a variant that never returns the error: it always breaks the message loop
OnErrorBreakOnly(m) ==
    /\ pc' = "topics"
    /\ NoEntry
    /\ UNCHANGED <<result, drained, taken>>

\* a variant that returns the error only when the failed topic is the last
\* entry of the drain, and goes on with the next entry otherwise
OnErrorReturnIfLast(m) ==
    IF fail_on_error /\ DOMAIN drained = {}
    THEN /\ pc' = "idle"
         /\ result' = ResultErr(m)
         /\ drained' = EmptyMap
         /\ taken' = taken \cup Ids(snap)
         /\ NoEntry
    ELSE /\ pc' = "topics"
         /\ NoEntry
         /\ UNCHANGED <<result, drained, taken>>

\* a variant that retries the failed stage: the listener loop stays where it
\* is and calls the same listener's stage on the same message again
OnErrorRetry(m) ==
    UNCHANGED <<pc, drained, topic, messages, mi, li, result, taken>>

\* `Err(message) => { error!(..); if self.fail_on_error { return Err(message) }
\*                    break 'message_loop; }`
OnError(m) ==
    IF fail_on_error
    THEN /\ pc' = "idle"
         /\ result' = ResultErr(m)
         /\ drained' = EmptyMap
         /\ taken' = taken \cup Ids(snap)
         /\ NoEntry
    ELSE /\ pc' = "topics"
         /\ NoEntry
         /\ UNCHANGED <<result, drained, taken>>

\* a variant that runs the three stages listener by listener instead of
\* stage by stage
OnOkListenerMajor(after, ms) ==
    /\ IF after # "on_before"
       THEN /\ pc' = after
            /\ messages' = ms
            /\ UNCHANGED <<topic, mi, li>>
       ELSE IF li < Len(subscribers[topic])
       THEN /\ li' = li + 1
            /\ pc' = "on_before"
            /\ messages' = ms
            /\ UNCHANGED <<topic, mi>>
       ELSE IF mi < Len(messages)
       THEN /\ li' = 1
            /\ mi' = mi + 1
            /\ pc' = "on_before"
            /\ messages' = ms
            /\ UNCHANGED topic
       ELSE /\ NoEntry
            /\ pc' = "topics"
    /\ UNCHANGED <<result, drained, taken>>

\* a variant whose listener loop stops one listener early
OnOkSkipsLast(after, ms) ==
    /\ IF li + 1 < Len(subscribers[topic])
       THEN /\ li' = li + 1
            /\ messages' = ms
            /\ UNCHANGED <<pc, topic, mi>>
       ELSE IF after # "on_before"
       THEN /\ li' = 1
            /\ pc' = after
            /\ messages' = ms
            /\ UNCHANGED <<topic, mi>>
       ELSE IF mi < Len(messages)
       THEN /\ li' = 1
            /\ mi' = mi + 1
            /\ pc' = "on_before"
            /\ messages' = ms
            /\ UNCHANGED topic
       ELSE /\ NoEntry
            /\ pc' = "topics"
    /\ UNCHANGED <<result, drained, taken>>

\* a variant in which the listener works on a copy of the message: what it
\* writes does not reach the Vec
OnOkDropsWrite(after, ms) ==
    /\ IF li < Len(subscribers[topic])
       THEN /\ li' = li + 1
            /\ UNCHANGED <<pc, topic, mi, messages>>
       ELSE IF after # "on_before"
       THEN /\ li' = 1
            /\ pc' = after
            /\ UNCHANGED <<topic, mi, messages>>
       ELSE IF mi < Len(messages)
       THEN /\ li' = 1
            /\ mi' = mi + 1
            /\ pc' = "on_before"
            /\ UNCHANGED <<topic, messages>>
       ELSE /\ NoEntry
            /\ pc' = "topics"
    /\ UNCHANGED <<result, drained, taken>>

\* `_ => {}`: the listener loop goes on; at its end the next stage's loop
\* starts, and after on_after the message loop goes on to the next message.
\* ms is the Vec with what the listener left in `message`.
OnOk(after, ms) ==
    /\ IF li < Len(subscribers[topic])
       THEN /\ li' = li + 1
            /\ messages' = ms
            /\ UNCHANGED <<pc, topic, mi>>
       ELSE IF after # "on_before"
       THEN /\ li' = 1
            /\ pc' = after
            /\ messages' = ms
            /\ UNCHANGED <<topic, mi>>
       ELSE IF mi < Len(messages)
       THEN /\ li' = 1
            /\ mi' = mi + 1
            /\ pc' = "on_before"
            /\ messages' = ms
            /\ UNCHANGED topic
       ELSE /\ NoEntry
            /\ pc' = "topics"
    /\ UNCHANGED <<result, drained, taken>>

\* a variant that consults the suppress list: a listener whose type is on it
\* is passed over
StageLoopSkipsSuppressed(stage, after) ==
    /\ pc = stage
    /\ LET l == subscribers[topic][li]
           r == CallStage(stage, l, messages[mi])
       IN IF /\ suppress_subscribers.some
             /\ \E i \in 1..Len(suppress_subscribers.ids) : suppress_subscribers.ids[i] = l
          THEN /\ calls' = calls
               /\ OnOk(after, messages)
          ELSE /\ calls' = Append(calls, Call(stage, l, messages[mi], r))
               /\ IF r.res.ok
                  THEN OnOk(after, [messages EXCEPT ![mi] = r.event])
                  ELSE OnError(r.res.msg)
    /\ UNCHANGED <<bus, snap, nextId, subscribed, cleared, afterClear, probe>>

\* one of the three `for listener in ..get_mut(&event).unwrap().iter_mut()`
\* loops: the call of the next listener's stage on the current message
StageLoop(stage, after) ==
    /\ pc = stage
    /\ LET l == subscribers[topic][li]
           r == CallStage(stage, l, messages[mi])
       IN /\ calls' = Append(calls, Call(stage, l, messages[mi], r))
          /\ IF r.res.ok
             THEN OnOk(after, [messages EXCEPT ![mi] = r.event])
             ELSE OnError(r.res.msg)
    /\ UNCHANGED <<bus, snap, nextId, subscribed, cleared, afterClear, probe>>

OnBeforeLoop == StageLoop("on_before", "on_event")
OnEventLoop == StageLoop("on_event", "on_after")
OnAfterLoop == StageLoop("on_after", "on_before")

\* the operations that register, subscribe, publish and clear
Next ==
    \/ \E t \in Topics, d \in Payloads : Register(t, d)
    \/ \E t \in Topics, l \in Listeners : SubscribeListener(t, l)
    \/ Clear
    \/ PublishStart
    \/ NextTopic
    \/ PublishOk
    \/ OnBeforeLoop
    \/ OnEventLoop
    \/ OnAfterLoop

Spec == Init /\ [][Next]_vars

\* the same with suppress_subscriber, whose list no other operation reads;
\* the listeners subscribed are those of the types that are suppressed
NextSuppress ==
    \/ \E t \in Topics, d \in Payloads : Register(t, d)
    \/ \E t \in Topics, l \in SuppressTypes : SubscribeListener(t, l)
    \/ \E l \in SuppressTypes : SuppressSubscriber(l)
    \/ Clear
    \/ PublishStart
    \/ NextTopic
    \/ PublishOk
    \/ OnBeforeLoop
    \/ OnEventLoop
    \/ OnAfterLoop

SpecSuppress == Init /\ [][NextSuppress]_vars

\* the same operations with the listeners that write to the event
NextRewrite ==
    \/ \E t \in Topics, d \in Payloads : Register(t, d)
    \/ \E t \in Topics, l \in RewriteListeners : SubscribeListener(t, l)
    \/ Clear
    \/ PublishStart
    \/ NextTopic
    \/ PublishOk
    \/ OnBeforeLoop
    \/ OnEventLoop
    \/ OnAfterLoop

SpecRewrite == Init /\ [][NextRewrite]_vars

\* The steps of a running publish.  publish is sequential code that calls
\* listener stages which return: once it is called, its next step is always
\* taken.  Whether the caller makes another call is left open.
PublishStep ==
    \/ NextTopic
    \/ PublishOk
    \/ OnBeforeLoop
    \/ OnEventLoop
    \/ OnAfterLoop

\* the listener implementations written in the repository: each of them
\* fails on one of the two payloads
SourceListeners == {"ExampleSubscriber", "NumberSubscriber"}

NextLive ==
    \/ \E t \in Topics, d \in Payloads : Register(t, d)
    \/ \E t \in Topics, l \in SourceListeners : SubscribeListener(t, l)
    \/ Clear
    \/ PublishStart
    \/ PublishStep

SpecLive == Init /\ [][NextLive]_vars /\ WF_vars(PublishStep)

\* the buses the public constructors of EventBus build
Constructible == {New}

\* The bus whose fail_on_error field is false: the best-effort policy that
\* publish implements (OnError).  EventBus::new never builds this bus; the
\* claims about the best-effort policy are checked from this state.
BestEffortBus == [New EXCEPT !.fail_on_error = FALSE]

InitBestEffort == InitWith(BestEffortBus)

SpecBestEffort == InitBestEffort /\ [][Next]_vars

(***************************************************************************)
(* An Event used on its own: built with Event::new, read with get_data,    *)
(* rewritten with set_data.  probe.x is the payload it was built with,     *)
(* probe.y the payload it was last given, probe.got what the last get_data *)
(* returned for the type probe.asked.                                      *)
(***************************************************************************)

\* the types T of get_data::<T>: the two payload types and a third one
DataTypes == {"u32", "String", "bool"}

\* the payloads handed to Event::new and to set_data
EventPayloads ==
    {U32Payload(0), U32Payload(32), StringPayload(""), StringPayload("hello")}

\* `Event::new(x)`
EventNewCall(x) ==
    /\ probe.op = "none"
    /\ probe' = [op |-> "new", event |-> EventNew(<<"", 0>>, x), x |-> x, y |-> x,
                 sets |-> 0, asked |-> "", got |-> None]
    /\ UNCHANGED <<bus, pc, loop, hist>>

\* `event.get_data::<T>()`
GetDataCall(T) ==
    /\ probe.op # "none"
    /\ probe' = [probe EXCEPT !.op = "get", !.asked = T, !.got = GetData(probe.event, T)]
    /\ UNCHANGED <<bus, pc, loop, hist>>

\* `event.set_data::<U>(y)`
SetDataCall(y) ==
    /\ probe.op # "none"
    /\ probe.sets < MaxSets
    /\ probe' = [probe EXCEPT !.op = "set", !.event = SetData(@, y), !.y = y,
                              !.sets = @ + 1, !.asked = "", !.got = None]
    /\ UNCHANGED <<bus, pc, loop, hist>>

NextEvent ==
    \/ \E x \in EventPayloads : EventNewCall(x)
    \/ \E T \in DataTypes : GetDataCall(T)
    \/ \E y \in EventPayloads : SetDataCall(y)

SpecEvent == Init /\ [][NextEvent]_vars

(***************************************************************************)
(* Reading the history of a publish.                                       *)
(***************************************************************************)

\* publish has returned and the caller has made no other call since
Returned == pc = "idle" /\ result.kind # "None"

\* the topics of the taken map that have a listener list
Routed == DOMAIN snap \cap DOMAIN subscribers

\* the identities of a topic's taken queue, in queue order
QueueIds(t) == [i \in 1..Len(snap[t]) |-> snap[t][i].id]

\* the position of an identity in a topic's taken queue (0: not there)
QueuePos(t, id) ==
    IF \E i \in 1..Len(snap[t]) : snap[t][i].id = id
    THEN CHOOSE i \in 1..Len(snap[t]) : snap[t][i].id = id
    ELSE 0

\* the calls made on a topic, in the order they were made
CallsOn(t) ==
    LET OnT(c) == c.topic = t
    IN SelectSeq(calls, OnT)

\* the identities that listener registration p of topic t saw in stage s
IdsSeen(t, s, p) ==
    LET Mine(c) == c.topic = t /\ c.stage = s /\ c.li = p
        cs == SelectSeq(calls, Mine)
    IN [n \in 1..Len(cs) |-> cs[n].id]

\* how many calls were made with this topic, identity, stage and position
Count(t, id, s, p) ==
    Cardinality({j \in 1..Len(calls) :
        /\ calls[j].topic = t
        /\ calls[j].id = id
        /\ calls[j].stage = s
        /\ calls[j].li = p})

AllOk == \A j \in 1..Len(calls) : calls[j].res.ok

Failed(j) == ~calls[j].res.ok

\* stage s of event id was called with success at position p before call j
DoneBefore(j, t, id, s, p) ==
    \E i \in 1..(j - 1) :
        /\ calls[i].topic = t
        /\ calls[i].id = id
        /\ calls[i].stage = s
        /\ calls[i].li = p
        /\ calls[i].res.ok

(***************************************************************************)
(* C1: after register(T, e1), .., register(T, en) and one publish in which *)
(* no listener stage fails, every listener of T has been called, in each   *)
(* stage, on e1, .., en in the order of the register calls (identities are *)
(* handed out in register order), and every stage call on ek comes before  *)
(* any stage call on ek+1.                                                 *)
(***************************************************************************)
C1_FifoPerTopic ==
    /\ \A t \in DOMAIN snap :
          \A i, j \in 1..Len(snap[t]) : i < j => snap[t][i].id[2] < snap[t][j].id[2]
    /\ \A i, j \in 1..Len(calls) :
          (i < j /\ calls[i].topic = calls[j].topic) => calls[i].id[2] <= calls[j].id[2]
    /\ (Returned /\ AllOk) =>
          \A t \in Routed : \A s \in Stages : \A p \in 1..Len(subscribers[t]) :
              IdsSeen(t, s, p) = QueueIds(t)

\* a publish without failure has returned; it took two events of one topic
\* that has a listener
C1_Witness ==
    /\ Returned
    /\ AllOk
    /\ \E t \in Routed : Len(snap[t]) >= 2 /\ Len(CallsOn(t)) >= 6

(***************************************************************************)
(* C2: for each event the calls are sequenced by phase: within a stage the *)
(* listeners are called in subscription order, on_event is called for an   *)
(* event only after on_before has succeeded for every listener of the      *)
(* topic, and on_after only after on_event has succeeded for every         *)
(* listener.                                                               *)
(***************************************************************************)
C2_PhaseSequenced ==
    \A j \in 1..Len(calls) :
        LET c == calls[j]
            L == subscribers[c.topic]
        IN /\ c.li \in 1..Len(L)
           /\ c.listener = L[c.li]
           /\ \A p \in 1..(c.li - 1) : DoneBefore(j, c.topic, c.id, c.stage, p)
           /\ c.stage = "on_event" =>
                 \A p \in 1..Len(L) : DoneBefore(j, c.topic, c.id, "on_before", p)
           /\ c.stage = "on_after" =>
                 \A p \in 1..Len(L) : DoneBefore(j, c.topic, c.id, "on_event", p)

\* on_after has been called for the second listener of a topic
C2_Witness ==
    \E j \in 1..Len(calls) : calls[j].stage = "on_after" /\ calls[j].li = 2

(***************************************************************************)
(* C3: under the fail-fast policy the first stage call that fails is the   *)
(* last call of the publish, and publish returns Err with the message of   *)
(* that call; publish returns Err in no other case.                        *)
(***************************************************************************)
C3_FailFast ==
    fail_on_error =>
        /\ \A j \in 1..Len(calls) :
              Failed(j) =>
                  /\ j = Len(calls)
                  /\ pc = "idle"
                  /\ result = ResultErr(calls[j].res.msg)
        /\ result.kind = "Err" => (Len(calls) > 0 /\ Failed(Len(calls)))

\* publish has returned Err while a topic with a listener was not reached
C3_Witness ==
    /\ fail_on_error
    /\ Returned
    /\ result.kind = "Err"
    /\ \E t \in Routed : Len(CallsOn(t)) = 0

(***************************************************************************)
(* The order in which a topic's entry is processed when nothing fails:     *)
(* event by event, stage by stage, listener by listener.                   *)
(***************************************************************************)
StageName(n) ==
    IF n = 1 THEN "on_before" ELSE IF n = 2 THEN "on_event" ELSE "on_after"

Schedule(t) ==
    LET L == Len(subscribers[t])
        E == Len(snap[t])
    IN [n \in 1..(E * 3 * L) |->
           [id |-> snap[t][((n - 1) \div (3 * L)) + 1].id,
            stage |-> StageName((((n - 1) \div L) % 3) + 1),
            li |-> ((n - 1) % L) + 1]]

KeyOf(c) == [id |-> c.id, stage |-> c.stage, li |-> c.li]

\* the calls on topic t are the schedule of t, whole or cut right after a
\* call that failed
RunsItsSchedule(t) ==
    LET cs == CallsOn(t)
        sch == Schedule(t)
    IN /\ Len(cs) <= Len(sch)
       /\ \A n \in 1..Len(cs) : KeyOf(cs[n]) = sch[n]
       /\ \A n \in 1..(Len(cs) - 1) : cs[n].res.ok
       /\ Len(cs) < Len(sch) => (Len(cs) > 0 /\ ~cs[Len(cs)].res.ok)

(***************************************************************************)
(* C4: under the best-effort policy, after a stage call has failed on a    *)
(* topic no further call is made on that topic in the publish (neither for *)
(* the same event nor for a later one); every topic that has listeners is  *)
(* processed as it is on its own, along its schedule up to its own first   *)
(* failure, whatever happened on the other topics; publish returns Ok.     *)
(***************************************************************************)
C4_BestEffort ==
    ~fail_on_error =>
        /\ result.kind # "Err"
        /\ \A j \in 1..Len(calls) :
              Failed(j) => \A k \in (j + 1)..Len(calls) : calls[k].topic # calls[j].topic
        /\ Returned =>
              /\ result = ResultOk
              /\ \A t \in Routed : RunsItsSchedule(t)

\* a best-effort publish has returned; a call failed on an event that was not
\* the last of its topic, and another topic was processed after the failure
C4_Witness ==
    /\ ~fail_on_error
    /\ Returned
    /\ \E j \in 1..Len(calls) :
          /\ Failed(j)
          /\ QueuePos(calls[j].topic, calls[j].id) < Len(snap[calls[j].topic])
          /\ \E k \in (j + 1)..Len(calls) : calls[k].topic # calls[j].topic

C6_PolicyConfigurable ==
    /\ \E b \in Constructible : b.fail_on_error = fail_on_error
    /\ \E b \in Constructible : b.fail_on_error # fail_on_error

\* what the code does instead: every bus that EventBus::new builds, and every
\* state reached from it, is fail-fast
C6_AlwaysFailFast == fail_on_error = TRUE

(***************************************************************************)
(* What a publish took is never delivered by a later publish.              *)
(***************************************************************************)
NoRedelivery ==
    pc # "idle" => \A j \in 1..Len(calls) : calls[j].id \notin taken

\* the identities of the taken map that no stage was called on
NotCalled == {id \in Ids(snap) : \A j \in 1..Len(calls) : calls[j].id # id}

(***************************************************************************)
(* C7: whenever publish returns, with Ok or with Err, the bus holds no     *)
(* pending event for any topic: what the publish took and did not deliver  *)
(* (topics not reached after a fail-fast abort, events skipped after a     *)
(* failure) is dropped with the rest and no later publish delivers it.     *)
(***************************************************************************)
C7_PublishLeavesNothingPending ==
    /\ pc # "idle" => DOMAIN events = {}
    /\ Returned =>
          /\ DOMAIN events = {}
          /\ DOMAIN drained = {}
          /\ Ids(snap) \subseteq taken
    /\ NoRedelivery

\* publish has returned Err and part of what it took was not delivered
C7_Witness ==
    /\ Returned
    /\ result.kind = "Err"
    /\ NotCalled # {}
    /\ DOMAIN events = {}

(***************************************************************************)
(* C8: the events of a topic that has no listener when publish runs get no *)
(* stage call, do not make publish return Err (an Err comes from a failed  *)
(* call on a topic that has listeners; with no such topic publish returns  *)
(* Ok), and are discarded: they are not pending afterwards and a later     *)
(* publish calls no listener on them.                                      *)
(***************************************************************************)
C8_UnroutedDiscarded ==
    /\ \A t \in DOMAIN snap \ DOMAIN subscribers :
          \A i \in 1..Len(snap[t]) : snap[t][i].id \in NotCalled
    /\ \A j \in 1..Len(calls) : calls[j].topic \in Routed
    /\ (Returned /\ Routed = {}) => (result = ResultOk /\ calls = <<>>)
    /\ Returned =>
          \A t \in DOMAIN snap \ DOMAIN subscribers :
              \A i \in 1..Len(snap[t]) :
                  snap[t][i].id \in taken /\ snap[t][i].id \notin Ids(events)
    /\ NoRedelivery

\* publish has returned after it took events of a topic without listeners and
\* called the listeners of another topic
C8_Witness ==
    /\ Returned
    /\ DOMAIN snap \ DOMAIN subscribers # {}
    /\ Len(calls) > 0

(***************************************************************************)
(* C9: the events removed by clear are gone: they are not pending in the   *)
(* bus and no listener stage is ever called on them; a publish right after *)
(* clear calls no listener and returns Ok.                                 *)
(***************************************************************************)
C9_ClearDiscards ==
    /\ cleared \cap (Ids(events) \cup Ids(drained) \cup Ids(snap)) = {}
    /\ \A j \in 1..Len(calls) : calls[j].id \notin cleared
    /\ afterClear => (DOMAIN events = {} /\ calls = <<>>)
    /\ (afterClear /\ Returned) => result = ResultOk

\* a publish right after a clear that removed events has returned, while
\* every topic had a listener
C9_Witness ==
    /\ afterClear
    /\ Returned
    /\ cleared # {}
    /\ DOMAIN subscribers = Topics

(***************************************************************************)
(* C10: when every stage call succeeds publish returns Ok and, for every   *)
(* topic that has listeners, each listener registration has received each  *)
(* of the three stages exactly once for each event of the topic's queue,   *)
(* and nothing else was called; a listener with the default stages never   *)
(* fails.                                                                  *)
(***************************************************************************)
C10_EveryStageOnce ==
    /\ \A j \in 1..Len(calls) : calls[j].listener = "Default" => calls[j].res.ok
    /\ (Returned /\ AllOk) =>
          /\ result = ResultOk
          /\ \A t \in Routed : \A i \in 1..Len(snap[t]) :
                \A p \in 1..Len(subscribers[t]) : \A s \in Stages :
                    Count(t, snap[t][i].id, s, p) = 1
          /\ \A j \in 1..Len(calls) :
                /\ calls[j].topic \in Routed
                /\ QueuePos(calls[j].topic, calls[j].id) > 0
                /\ calls[j].li \in 1..Len(subscribers[calls[j].topic])
                /\ Count(calls[j].topic, calls[j].id, calls[j].stage, calls[j].li) = 1

\* a publish without failure has returned; a topic has two listeners and a
\* listener with the default stages was called
C10_Witness ==
    /\ Returned
    /\ AllOk
    /\ \E t \in Routed : Len(subscribers[t]) >= 2
    /\ \E j \in 1..Len(calls) : calls[j].listener = "Default"

(***************************************************************************)
(* Reading the listener registry.                                          *)
(***************************************************************************)

\* the listener list of a topic (empty when the topic has no entry)
ListOf(t) == IF ContainsKey(subscribers, t) THEN subscribers[t] ELSE <<>>

\* the positions that listener l occupies in the list of topic t
Positions(t, l) == {p \in 1..Len(ListOf(t)) : ListOf(t)[p] = l}

\* the calls of stage s made on event id of topic t with listener l
CallsOf(t, id, s, l) ==
    {j \in 1..Len(calls) :
        /\ calls[j].topic = t
        /\ calls[j].id = id
        /\ calls[j].stage = s
        /\ calls[j].listener = l}

\* event id was reached by the publish and no stage call on it failed
Succeeded(id) ==
    /\ \E j \in 1..Len(calls) : calls[j].id = id
    /\ \A j \in 1..Len(calls) : calls[j].id = id => calls[j].res.ok

(***************************************************************************)
(* C11: subscribe_listener appends at the end of the topic's list, with no *)
(* duplicate detection: the list of every topic is the sequence of the     *)
(* listeners of the subscribe_listener calls made on it, in call order, so *)
(* a listener subscribed n times holds n positions; and for each event of  *)
(* the topic whose stages all succeeded the listener has been called n     *)
(* times in each stage, once at each of its positions.                     *)
(***************************************************************************)
C11_SubscribeAppends ==
    /\ \A t \in Topics : ListOf(t) = subscribed[t]
    /\ Returned =>
          \A t \in Routed : \A i \in 1..Len(snap[t]) :
              Succeeded(snap[t][i].id) =>
                  \A l \in Listeners : \A s \in Stages :
                      LET cs == CallsOf(t, snap[t][i].id, s, l)
                      IN /\ {calls[j].li : j \in cs} = Positions(t, l)
                         /\ Cardinality(cs) = Cardinality(Positions(t, l))

\* a publish has returned; one listener was subscribed twice to a topic and
\* its on_after was called at its second position on an event of the topic
C11_Witness ==
    /\ Returned
    /\ \E t \in Routed : \E l \in Listeners :
          /\ subscribed[t] = <<l, l>>
          /\ \E j \in 1..Len(calls) :
                /\ calls[j].topic = t
                /\ calls[j].listener = l
                /\ calls[j].stage = "on_after"
                /\ calls[j].li = 2
                /\ Succeeded(calls[j].id)

(***************************************************************************)
(* C12: over any sequence of register, subscribe_listener, publish and     *)
(* clear calls, no stage of a listener registration is called more than    *)
(* once on the same registered event.  Within a publish no two calls have  *)
(* the same event, stage and position (so a failed stage is not called     *)
(* again); across publishes, every call is on an event of the map this     *)
(* publish took, what a publish took counts as taken when it returns, and  *)
(* a taken event is never pending or taken again.                          *)
(***************************************************************************)
C12_NoStageTwice ==
    /\ \A i, j \in 1..Len(calls) :
          (i < j /\ calls[i].id = calls[j].id /\ calls[i].stage = calls[j].stage)
              => calls[i].li # calls[j].li
    /\ \A j \in 1..Len(calls) :
          Failed(j) => \A k \in (j + 1)..Len(calls) : calls[k].id # calls[j].id
    /\ \A j \in 1..Len(calls) : calls[j].id \in Ids(snap)
    /\ pc # "idle" => Ids(snap) \cap taken = {}
    /\ Returned => Ids(snap) \subseteq taken
    /\ Ids(events) \cap taken = {}

\* a second publish has returned Err after a failed call, while an earlier
\* publish had taken other events
C12_Witness ==
    /\ Returned
    /\ result.kind = "Err"
    /\ Len(calls) > 0
    /\ Failed(Len(calls))
    /\ taken \ Ids(snap) # {}

(***************************************************************************)
(* C13: the round trip of an Event.  For an event built with Event::new(x), *)
(* x of type T, get_data::<T>() returns x and get_data::<V>() returns None *)
(* for every other type V; after set_data::<U>(y), get_data::<U>() returns *)
(* y and get_data of any other type returns None (so get_data::<T>() does  *)
(* when U differs from T); the event then holds y as an event built with y *)
(* does, with nothing of x left.                                           *)
(***************************************************************************)
C13_EventRoundTrip ==
    /\ (probe.op = "get" /\ probe.sets = 0) =>
          probe.got = (IF probe.asked = probe.x.type THEN Some(probe.x) ELSE None)
    /\ (probe.op = "get" /\ probe.sets > 0) =>
          /\ probe.got = (IF probe.asked = probe.y.type THEN Some(probe.y) ELSE None)
          /\ (probe.y.type # probe.x.type /\ probe.asked = probe.x.type) =>
                probe.got = None
    /\ probe.op # "none" => probe.event = EventNew(probe.event.id, probe.y)

\* get_data was asked for the type of x after set_data gave the event a
\* payload of another type
C13_Witness ==
    /\ probe.op = "get"
    /\ probe.sets = 1
    /\ probe.y.type # probe.x.type
    /\ probe.asked = probe.x.type
    /\ probe.got = None

(***************************************************************************)
(* Reading what the calls saw and left in an event.                        *)
(***************************************************************************)

\* the last call before call j on the same event (0: call j is the first)
PrevOn(j) ==
    LET before == {i \in 1..(j - 1) : calls[i].id = calls[j].id}
    IN IF before = {} THEN 0
       ELSE CHOOSE i \in before : \A k \in before : k <= i

\* the payload the event of call j had when the publish took it
TakenData(j) ==
    LET t == calls[j].topic
    IN snap[t][QueuePos(t, calls[j].id)].data

(***************************************************************************)
(* C14: a payload written to an event by a listener in on_before or in     *)
(* on_event is what every later stage call on that event sees in the same  *)
(* publish: each call sees the payload the previous call on the event      *)
(* left (the next listener of the stage, or the first listener of the next *)
(* stage), the first call sees the payload the event was registered with,  *)
(* and an on_after call leaves the payload as it saw it.                   *)
(***************************************************************************)
C14_WritesCarryOver ==
    \A j \in 1..Len(calls) :
        /\ PrevOn(j) = 0 => calls[j].seen = TakenData(j)
        /\ PrevOn(j) > 0 => calls[j].seen = calls[PrevOn(j)].left
        /\ calls[j].stage = "on_after" => calls[j].left = calls[j].seen

\* an event registered with 32 was rewritten to 33 in on_before and to
\* "handled" in on_event, and on_after was called with "handled"
C14_Witness ==
    \E i, j, k \in 1..Len(calls) :
        /\ i < j /\ j < k
        /\ calls[i].id = calls[j].id /\ calls[j].id = calls[k].id
        /\ calls[i].stage = "on_before"
        /\ calls[i].seen = U32Payload(32) /\ calls[i].left = U32Payload(33)
        /\ calls[j].stage = "on_event"
        /\ calls[j].seen = U32Payload(33) /\ calls[j].left = StringPayload("handled")
        /\ calls[k].stage = "on_after"
        /\ calls[k].seen = StringPayload("handled")

\* a is a prefix of b
IsPrefix(a, b) == Len(a) <= Len(b) /\ \A i \in 1..Len(a) : a[i] = b[i]

\* what a step does to the registry: each list grows at its end, if at all,
\* and only in a subscribe_listener call, by the listener of that call
RegistryStep ==
    /\ \A t \in Topics : IsPrefix(ListOf(t), ListOf(t)')
    /\ subscribed' = subscribed => subscribers' = subscribers
    /\ \A t \in Topics :
          subscribed'[t] # subscribed[t] =>
              /\ ListOf(t)' = Append(ListOf(t), subscribed'[t][Len(subscribed'[t])])
              /\ \A u \in Topics \ {t} : ListOf(u)' = ListOf(u)

(***************************************************************************)
(* C15: the listener registry is append-only.  In every step each topic's  *)
(* listener list before the step is a prefix of the list after it; a step  *)
(* that is not a subscribe_listener call (a register, a clear, a           *)
(* suppress_subscriber, any step of a publish, its return with Ok or Err   *)
(* included) leaves the registry as it is, and subscribe_listener(T, l)    *)
(* appends l to the list of T and leaves the other lists as they are.      *)
(***************************************************************************)
C15_RegistryAppendOnly == [][RegistryStep]_vars

\* after an earlier publish, a clear and a suppress_subscriber call, a publish
\* that returned Err has called a listener at the position of its subscription
C15_Witness ==
    /\ Returned
    /\ result.kind = "Err"
    /\ taken \ Ids(snap) # {}
    /\ cleared # {}
    /\ suppress_subscribers.some
    /\ \E j \in 1..Len(calls) : calls[j].listener = subscribed[calls[j].topic][calls[j].li]

\* the pending queue of a topic (empty when the topic has no entry)
QueueOf(t) == IF ContainsKey(events, t) THEN events[t] ELSE <<>>

\* what a step that registers an event on a topic does
RegisterStep ==
    \A t \in Topics :
        nextId'[t] # nextId[t] =>
            /\ \E d \in Payloads :
                  QueueOf(t)' = Append(QueueOf(t), EventNew(<<t, nextId[t]>>, d))
            /\ DOMAIN events' = DOMAIN events \cup {t}
            /\ \A u \in Topics \ {t} : QueueOf(u)' = QueueOf(u)
            /\ subscribers' = subscribers
            /\ suppress_subscribers' = suppress_subscribers
            /\ fail_on_error' = fail_on_error
            /\ pc' = "idle"
            /\ calls' = <<>>
            /\ result' = NoResult

(***************************************************************************)
(* C16: register(T, e) changes only the pending queue of T, which becomes  *)
(* the old queue (empty if T had none) with e appended at the end.  The    *)
(* queues of the other topics, every listener list, the suppress list and  *)
(* the failure-policy flag are unchanged, no listener is called and no     *)
(* publish is started.  A register step is one that hands out an identity  *)
(* of T; e is the event with that identity and one of the payloads.        *)
(***************************************************************************)
C16_RegisterFrame == [][RegisterStep]_vars

\* a second event has been registered on a topic while the other topic had a
\* pending event and both topics had a listener
C16_Witness ==
    /\ pc = "idle"
    /\ result = NoResult
    /\ \E t \in Topics : \E u \in Topics \ {t} :
          /\ Len(QueueOf(t)) >= 2
          /\ Len(QueueOf(u)) >= 1
          /\ Len(ListOf(t)) >= 1
          /\ Len(ListOf(u)) >= 1

\* every stage of event id of topic t has been called with success by every
\* listener of t: the last listener's on_after returned Ok
Handled(t, id) ==
    \E j \in 1..Len(calls) :
        /\ calls[j].topic = t
        /\ calls[j].id = id
        /\ calls[j].stage = "on_after"
        /\ calls[j].li = Len(subscribers[t])
        /\ calls[j].res.ok

\* publish has returned before it handled every event of every topic that
\* has listeners
ReturnedEarly ==
    /\ Returned
    /\ \E t \in Routed : \E i \in 1..Len(snap[t]) : ~Handled(t, snap[t][i].id)

(***************************************************************************)
(* C17: every publish call terminates: a publish that is running           *)
(* eventually returns, with Ok or with Err; and it returns early, before   *)
(* every pending event of every topic with listeners has been handled,     *)
(* only when a listener stage has failed.                                  *)
(***************************************************************************)
C17_PublishTerminates ==
    /\ (pc # "idle") ~> Returned
    /\ [](ReturnedEarly => \E j \in 1..Len(calls) : Failed(j))

\* a publish of two topics with listeners has returned early, on the failure
\* of a stage call
C17_Witness ==
    /\ ReturnedEarly
    /\ Cardinality(Routed) = 2
    /\ \E j \in 1..Len(calls) : Failed(j)

(***************************************************************************)
(* A topic processed on its own: the stage calls that the message loop of  *)
(* publish makes for the queue snap[t] with the listeners subscribers[t],  *)
(* event by event, stage by stage, listener by listener, up to the first   *)
(* call that fails.  Nothing but the queue and the listener list enters.   *)
(***************************************************************************)
RECURSIVE RunFrom(_, _, _, _, _)
\* the calls from listener p of stage number s of the i-th event on; e is the
\* event as the calls before left it
RunFrom(t, i, s, p, e) ==
    LET l == subscribers[t][p]
        r == CallStage(StageName(s), l, e)
        c == [topic |-> t, id |-> e.id, stage |-> StageName(s), li |-> p,
              listener |-> l, seen |-> e.data, left |-> r.event.data, res |-> r.res]
    IN IF ~r.res.ok THEN <<c>>
       ELSE IF p < Len(subscribers[t]) THEN <<c>> \o RunFrom(t, i, s, p + 1, r.event)
       ELSE IF s < 3 THEN <<c>> \o RunFrom(t, i, s + 1, 1, r.event)
       ELSE IF i < Len(snap[t]) THEN <<c>> \o RunFrom(t, i + 1, 1, 1, snap[t][i + 1])
       ELSE <<c>>

Alone(t) ==
    IF Len(snap[t]) = 0 \/ Len(subscribers[t]) = 0 THEN <<>>
    ELSE RunFrom(t, 1, 1, 1, snap[t][1])

\* the topic, processed on its own, reaches a stage call that fails (its last
\* call, as nothing follows a failure)
FailsAlone(t) ==
    LET a == Alone(t)
    IN Len(a) > 0 /\ ~a[Len(a)].res.ok

\* the types on the suppress list
Suppressed == {suppress_subscribers.ids[i] : i \in 1..Len(suppress_subscribers.ids)}

\* what dispatch does, stated without the suppress list: every topic with
\* listeners was processed as on its own or, after a failure elsewhere, not at
\* all, and the result is the Err of the failed call or else Ok
DispatchIgnoresSuppress ==
    Returned =>
        /\ \A t \in Routed :
              \/ CallsOn(t) = Alone(t)
              \/ CallsOn(t) = <<>> /\ result.kind = "Err"
        /\ result = IF \E j \in 1..Len(calls) : Failed(j)
                    THEN ResultErr(calls[Len(calls)].res.msg)
                    ELSE ResultOk

\* a step that changes the suppress list adds one type that was not on it,
\* at the end, and changes nothing else of the bus
SuppressStep ==
    suppress_subscribers' # suppress_subscribers =>
        /\ \E l \in SuppressTypes \ Suppressed :
              suppress_subscribers' = SomeTypes(Append(suppress_subscribers.ids, l))
        /\ UNCHANGED <<events, subscribers, fail_on_error, pc, loop>>

(***************************************************************************)
(* C18: suppress_subscriber has no effect on dispatch.  The stage calls of *)
(* every publish and its result are what the queues and the listener lists *)
(* alone determine, whether or not the type of a listener is on the        *)
(* suppress list; the only effect of suppress_subscriber is to add the     *)
(* type to the list, which holds each type at most once.                   *)
(***************************************************************************)
C18_SuppressHasNoEffect ==
    /\ []DispatchIgnoresSuppress
    /\ [](\A i, j \in 1..Len(suppress_subscribers.ids) :
             i # j => suppress_subscribers.ids[i] # suppress_subscribers.ids[j])
    /\ [][SuppressStep]_vars

\* a publish has returned Ok after it called, in the three stages, a listener
\* whose type was on the suppress list with the other type
C18_Witness ==
    /\ Returned
    /\ result = ResultOk
    /\ Suppressed = SuppressTypes
    /\ \E j \in 1..Len(calls) :
          /\ calls[j].listener \in Suppressed
          /\ calls[j].stage = "on_after"

(***************************************************************************)
(* C19: whether publish returns Ok or Err does not depend on the order in  *)
(* which the topics are iterated: whatever order the drain yields, publish *)
(* returns Err exactly when the policy is fail-fast and at least one topic *)
(* with listeners, processed on its own, reaches a stage call that fails.  *)
(* (Which message is returned and which other topics were dispatched may   *)
(* differ from one order to another.)                                      *)
(***************************************************************************)
C19_ResultOrderIndependent ==
    Returned =>
        (result.kind = "Err" <=> (fail_on_error /\ \E t \in Routed : FailsAlone(t)))

\* publish has returned Err for two topics with listeners of which one fails
\* on its own and the other does not; the other one was dispatched first
C19_Witness ==
    /\ Returned
    /\ result.kind = "Err"
    /\ \E t \in Routed : \E u \in Routed \ {t} :
          /\ FailsAlone(t)
          /\ ~FailsAlone(u)
          /\ CallsOn(u) = Alone(u)
          /\ Len(CallsOn(u)) > 0

\* the same bus state, iterated in the other order: the topic that does not
\* fail was not dispatched
C19_OtherOrder ==
    /\ Returned
    /\ result.kind = "Err"
    /\ \E t \in Routed : \E u \in Routed \ {t} :
          /\ FailsAlone(t)
          /\ ~FailsAlone(u)
          /\ CallsOn(u) = <<>>

(***************************************************************************)
(* C20: in every reachable state every key of the pending-event map (and   *)
(* of the map a running publish has taken) maps to a non-empty sequence of *)
(* events and every key of the subscriber map maps to a non-empty sequence *)
(* of listeners, so that the contains_key test of publish on the           *)
(* subscriber map holds exactly for the topics that at least one           *)
(* subscribe_listener call was made on.                                    *)
(***************************************************************************)
C20_NoEmptyEntries ==
    /\ \A k \in DOMAIN events : Len(events[k]) > 0
    /\ \A k \in DOMAIN drained : Len(drained[k]) > 0
    /\ \A k \in DOMAIN snap : Len(snap[k]) > 0
    /\ \A k \in DOMAIN subscribers : Len(subscribers[k]) > 0
    /\ \A t \in Topics : ContainsKey(subscribers, t) <=> Len(subscribed[t]) > 0
    /\ pc \in Stages => (ContainsKey(subscribers, topic) /\ Len(messages) > 0)

\* both topics have pending events and listeners after a publish that took
\* an event
C20_Witness ==
    /\ DOMAIN events = Topics
    /\ DOMAIN subscribers = Topics
    /\ taken # {}

====
